---- MODULE Spec2Model ----
(***************************************************************************)
(* Device-info resolution of yubikey-manager: yubikit/support.py           *)
(* (read_info, its three resolvers, the normalization steps, get_name).    *)
(*                                                                         *)
(* Capability bitsets (IntFlag) are modelled as sets of bit names; | is    *)
(* \cup, & is \cap and &~ is \ .  The bit 0x04, which CAPABILITY does not  *)
(* name but USB_INTERFACE.CCID has, is the capability bit "CCID".          *)
(* Dictionaries keyed by TRANSPORT are functions whose DOMAIN is the set   *)
(* of keys present.  None is "None" where the value is a name, NoneRec     *)
(* where it is an object and <<>> where it is a tuple.                     *)
(***************************************************************************)
EXTENDS Integers, Sequences, FiniteSets, TLC

VARIABLES
    pc,            \* position of the running call
    pid,           \* read_info's pid argument: [yubikey_type, usb_interfaces] or None
    conn,          \* kind of the connection handed to read_info
    key_type,      \* pid.yubikey_type, or None
    interfaces,    \* pid.usb_interfaces, or USB_INTERFACE(0)
    info,          \* the DeviceInfo being built / returned
    raw,           \* the DeviceInfo as the resolver returned it (history)
    source,        \* "mgmt" | "synth" : how the resolver obtained raw (history)
    mgmt,          \* a ManagementSession exists
    otp,           \* the YubiOtpSession (its version), or None
    version,       \* _read_info_ccid's local version, or None
    serial,        \* the resolver's local serial, or None
    capabilities,  \* _read_info_ccid's running capability bitset
    n,             \* iterations of the reclaim loop completed
    table,         \* the probe table still to be scanned
    applets,       \* the device's answer to each SELECT (used by the scan on its own)
    raised,        \* the exception read_info raised, or None
    sleeps,        \* calls of sleep(0.5) so far (history)
    serialReads,   \* calls of otp.get_serial() in _read_info_otp so far (history)
    serialRejects, \* of those, rejected with CommandRejectedError (history)
    mgmtRejects,   \* read_device_info() calls rejected with CommandRejectedError (history)
    notSupported,  \* read_device_info() failed with NotSupportedError in _read_info_otp (history)
    okRead,        \* index of the serial read that succeeded, 0 if none (history)
    okSerial,      \* the serial that read returned (history)
    faults,        \* the calls that failed with a channel/protocol error so far (history)
    probed,        \* identifiers the scan has probed (history)
    name,          \* get_name's result
    drivers,       \* the CCIDDriver objects on one connection, each with its running call
    selected,      \* AID of the applet selected on the card, <<>> if none
    wire,          \* the last command delivered over the connection, or None (history)
    sends,         \* calls of send_apdu so far (history)
    transmits,     \* calls of connection.transmit so far (history)
    used           \* the responses a driver took a result from (history)

\* The CCID driver and its connection (ykman/driver_ccid.py).
driverVars == <<drivers, selected, wire, sends, transmits, used>>

vars ==
    <<pc, pid, driverVars, conn, key_type, interfaces, info, raw, source, mgmt, otp, version,
      serial, capabilities, n, table, applets, raised, sleeps, serialReads,
      serialRejects, mgmtRejects, notSupported, okRead, okSerial, faults, probed, name>>

\* The variables of one resolution call that normalization leaves alone.
callVars ==
    <<pid, driverVars, conn, key_type, interfaces, mgmt, otp, version, serial, capabilities, n,
      table, applets, raised, sleeps, serialReads, serialRejects, mgmtRejects, notSupported,
      okRead, okSerial, faults, probed, name>>

None == "None"

NoneRec == [none |-> TRUE]

NoVersion == <<>>

\* No CCIDDriver has been made on the connection.
NoDriver ==
    /\ drivers = <<>>
    /\ selected = <<>>
    /\ wire = NoneRec
    /\ sends = 0
    /\ transmits = 0
    /\ used = {}

\* ------------------------------------------------------------------ bounds
MaxMajor == 5
MaxMinor == 5
MaxPatch == 4

\* ------------------------------------------------------------------ types
Version == {<<a, b, c>> : a \in 0..MaxMajor, b \in 0..MaxMinor, c \in 0..MaxPatch}

\* Version is a tuple: Python compares tuples lexicographically.
VLess(a, b) ==
    \/ a[1] < b[1]
    \/ a[1] = b[1] /\ a[2] < b[2]
    \/ a[1] = b[1] /\ a[2] = b[2] /\ a[3] < b[3]

VLeq(a, b) == a = b \/ VLess(a, b)

TRANSPORT == {"USB", "NFC"}

USB_INTERFACE == {"OTP", "FIDO", "CCID"}

FORM_FACTOR ==
    {"UNKNOWN", "USB_A_KEYCHAIN", "USB_A_NANO", "USB_C_KEYCHAIN", "USB_C_NANO",
     "USB_C_LIGHTNING", "USB_A_BIO", "USB_C_BIO"}

YUBIKEY == {"YKS", "NEO", "SKY", "YKP", "YK4"}

BASE_NEO_APPS == {"OTP", "OATH", "PIV", "OPENPGP"}

\* CAPABILITY.OTP | CAPABILITY.U2F | USB_INTERFACE.CCID
EDGE_CAPS == {"OTP", "U2F", "CCID"}

has_transport(i, t) == t \in DOMAIN i.supported_capabilities

\* d[k] = v on a dictionary
DictSet(d, k, v) == [x \in DOMAIN d \cup {k} |-> IF x = k THEN v ELSE d[x]]

\* d.pop(k, None)
DictPop(d, k) == [x \in DOMAIN d \ {k} |-> d[x]]

EmptyDict == [x \in {} |-> {}]

\* ------------------------------------------------------- is_fips_version
is_fips_version_endIncl(v) ==
    VLeq(<<4, 4, 0>>, v) /\ VLeq(v, <<4, 5, 0>>)

is_fips_version(v) ==
    VLeq(<<4, 4, 0>>, v) /\ VLess(v, <<4, 5, 0>>)

\* --------------------------------------------- read_info: normalization
\* "Set usb_enabled if missing (pre YubiKey 5)"
SetUsbEnabled_noGuard(i, ifs) ==
    IF has_transport(i, "USB")
    THEN LET usb0 == i.supported_capabilities["USB"]
             sup  == IF usb0 = EDGE_CAPS
                     THEN [t \in {"USB"} |-> {"OTP", "U2F"}]
                     ELSE i.supported_capabilities
             usb1 == IF "OTP" \notin ifs THEN usb0 \ {"OTP"} ELSE usb0
             usb2 == IF "FIDO" \notin ifs THEN usb1 \ {"U2F", "FIDO2"} ELSE usb1
             usb3 == IF "CCID" \notin ifs
                     THEN usb2 \ {"CCID", "OATH", "OPENPGP", "PIV"}
                     ELSE usb2
         IN  [i EXCEPT !.supported_capabilities = sup,
                       !.enabled_capabilities = DictSet(@, "USB", usb3)]
    ELSE i

SetUsbEnabled_keepFido2(i, ifs) ==
    IF has_transport(i, "USB") /\ "USB" \notin DOMAIN i.enabled_capabilities
    THEN LET usb0 == i.supported_capabilities["USB"]
             sup  == IF usb0 = EDGE_CAPS
                     THEN [t \in {"USB"} |-> {"OTP", "U2F"}]
                     ELSE i.supported_capabilities
             usb1 == IF "OTP" \notin ifs THEN usb0 \ {"OTP"} ELSE usb0
             usb2 == IF "FIDO" \notin ifs THEN usb1 \ {"U2F"} ELSE usb1
             usb3 == IF "CCID" \notin ifs
                     THEN usb2 \ {"CCID", "OATH", "OPENPGP", "PIV"}
                     ELSE usb2
         IN  [i EXCEPT !.supported_capabilities = sup,
                       !.enabled_capabilities = DictSet(@, "USB", usb3)]
    ELSE i

SetUsbEnabled(i, ifs) ==
    IF has_transport(i, "USB") /\ "USB" \notin DOMAIN i.enabled_capabilities
    THEN LET usb0 == i.supported_capabilities["USB"]
             sup  == IF usb0 = EDGE_CAPS
                     THEN [t \in {"USB"} |-> {"OTP", "U2F"}]
                     ELSE i.supported_capabilities
             usb1 == IF "OTP" \notin ifs THEN usb0 \ {"OTP"} ELSE usb0
             usb2 == IF "FIDO" \notin ifs THEN usb1 \ {"U2F", "FIDO2"} ELSE usb1
             usb3 == IF "CCID" \notin ifs
                     THEN usb2 \ {"CCID", "OATH", "OPENPGP", "PIV"}
                     ELSE usb2
         IN  [i EXCEPT !.supported_capabilities = sup,
                       !.enabled_capabilities = DictSet(@, "USB", usb3)]
    ELSE i

\* "YK4-based FIPS version"
SetFips(i) == IF is_fips_version(i.version) THEN [i EXCEPT !.is_fips = TRUE] ELSE i

\* "Set nfc_enabled if missing (pre YubiKey 5)"
SetNfcEnabled(i) ==
    IF has_transport(i, "NFC") /\ "NFC" \notin DOMAIN i.enabled_capabilities
    THEN [i EXCEPT !.enabled_capabilities =
                       DictSet(@, "NFC", i.supported_capabilities["NFC"])]
    ELSE i

\* "Workaround for invalid configurations."
StripNfc_noLightning(i) ==
    IF /\ VLeq(<<4, 0, 0>>, i.version)
       /\ \/ i.form_factor \in {"USB_A_NANO", "USB_C_NANO"}
          \/ i.form_factor = "USB_C_KEYCHAIN" /\ VLess(i.version, <<5, 2, 4>>)
    THEN [i EXCEPT !.supported_capabilities = DictPop(@, "NFC"),
                   !.enabled_capabilities = DictPop(@, "NFC")]
    ELSE i

StripNfc(i) ==
    IF /\ VLeq(<<4, 0, 0>>, i.version)
       /\ \/ i.form_factor \in {"USB_A_NANO", "USB_C_NANO", "USB_C_LIGHTNING"}
          \/ i.form_factor = "USB_C_KEYCHAIN" /\ VLess(i.version, <<5, 2, 4>>)
    THEN [i EXCEPT !.supported_capabilities = DictPop(@, "NFC"),
                   !.enabled_capabilities = DictPop(@, "NFC")]
    ELSE i

\* Lines 279-330 of read_info, in order.
Normalize(i, ifs) == StripNfc(SetNfcEnabled(SetFips(SetUsbEnabled(i, ifs))))

\* ---------------------------------------------------------- DeviceInfo
DeviceInfo(ser, ver, form_factor, supported, enabled, fips, sky) ==
    [serial |-> ser, version |-> ver, form_factor |-> form_factor,
     supported_capabilities |-> supported, enabled_capabilities |-> enabled,
     is_fips |-> fips, is_sky |-> sky]

\* Capability sets a device reports for USB: the Edge combination, a YubiKey 4
\* with the CCID bit, a YubiKey 5.
UsbCapSets ==
    {EDGE_CAPS,
     {"OTP", "U2F", "CCID", "OATH", "PIV", "OPENPGP"},
     {"OTP", "U2F", "FIDO2", "OATH", "PIV", "OPENPGP", "HSMAUTH"}}

NfcCapSets == {BASE_NEO_APPS \cup {"U2F"}}

Dicts(usbs, nfcs) ==
    {EmptyDict}
    \cup {[t \in {"USB"} |-> u] : u \in usbs}
    \cup {[t \in {"NFC"} |-> c] : c \in nfcs}
    \cup {[t \in TRANSPORT |-> IF t = "USB" THEN u ELSE c] : u \in usbs, c \in nfcs}

\* What mgmt.read_device_info() can return: the device decides every field.
\* Firmware before 4.1.0 has no device-info command (NotSupportedError).
MgmtInfoSet(versions, forms) ==
    {DeviceInfo("serial1", v, f, s, e, fips, FALSE) :
        v \in {x \in versions : VLeq(<<4, 1, 0>>, x)},
        f \in forms,
        s \in Dicts(UsbCapSets, NfcCapSets) \ {EmptyDict},
        e \in Dicts({{"OTP"}}, {{"OTP"}}),
        fips \in BOOLEAN}

MgmtInfos == MgmtInfoSet(Version, FORM_FACTOR \ {"USB_A_BIO", "USB_C_BIO"})

\* The shapes of the DeviceInfo the three resolvers synthesize (lines 143-158,
\* 209-221, 242-254): enabled map empty, flags at their defaults.
SynthInfos ==
    {DeviceInfo(None, v, f, s, EmptyDict, FALSE, FALSE) :
        v \in Version,
        f \in {"UNKNOWN", "USB_A_KEYCHAIN"},
        s \in {[t \in TRANSPORT |-> c] : c \in {BASE_NEO_APPS, BASE_NEO_APPS \cup {"U2F"}}}
             \cup {[t \in {"USB"} |-> c] : c \in {{"OTP"}, {"OTP", "U2F"}, {"U2F"}}}}

\* ----------------------------------------------------- shared initial values
Idle ==
    /\ mgmt = FALSE
    /\ otp = NoneRec
    /\ version = NoVersion
    /\ serial = None
    /\ capabilities = {}
    /\ n = 0
    /\ table = <<>>
    /\ applets = NoneRec
    /\ raised = None
    /\ sleeps = 0
    /\ serialReads = 0
    /\ serialRejects = 0
    /\ mgmtRejects = 0
    /\ notSupported = FALSE
    /\ okRead = 0
    /\ okSerial = None
    /\ faults = {}
    /\ probed = {}
    /\ name = <<>>

\* ------------------------------------------- normalization on its own
\* The resolver has returned raw; interfaces is any set of active interfaces.
InitNorm ==
    /\ Idle
    /\ pid = NoneRec
    /\ NoDriver
    /\ conn = None
    /\ key_type = None
    /\ pc = "resolved"
    /\ interfaces \in SUBSET USB_INTERFACE
    /\ \/ raw \in MgmtInfos /\ source = "mgmt"
       \/ raw \in SynthInfos /\ source = "synth"
    /\ info = raw

\* read_info, lines 279-333, on the resolver's result
NormalizeInfo ==
    /\ pc = "resolved"
    /\ info' = Normalize(info, interfaces)
    /\ pc' = "done"
    /\ UNCHANGED <<raw, source>>
    /\ UNCHANGED callVars

\* The same steps applied once more, to the DeviceInfo read_info returned.
NormalizeAgain ==
    /\ pc \in {"done", "again"}
    /\ info' = Normalize(info, interfaces)
    /\ pc' = "again"
    /\ UNCHANGED <<raw, source>>
    /\ UNCHANGED callVars

NextNorm == NormalizeInfo \/ NormalizeAgain

SpecNorm == InitNorm /\ [][NextNorm]_vars

\* ============================================================ read_info
Fatal == {"ChannelError", "ProtocolError"}

Serials == {"serial1", "serial2"}

\* Firmware versions a device answers with, around the thresholds the resolvers
\* and the normalization compare against.
DevVersions ==
    {<<3, 2, 4>>, <<3, 3, 0>>, <<4, 0, 0>>, <<4, 4, 0>>, <<5, 2, 3>>, <<5, 2, 4>>}

\* The records the modelled device answers read_device_info() with.
DevMgmtInfos ==
    {i \in MgmtInfoSet(DevVersions, {"USB_A_KEYCHAIN", "USB_C_KEYCHAIN"}) :
        /\ ~i.is_fips
        /\ DOMAIN i.enabled_capabilities \in {{}, DOMAIN i.supported_capabilities}}

PIDs ==
    {NoneRec} \cup [yubikey_type : YUBIKEY, usb_interfaces : SUBSET USB_INTERFACE \ {{}}]

Connections ==
    {"SmartCardConnection", "OtpConnection", "FidoConnection", "Connection"}

Init ==
    /\ Idle
    /\ pc = "start"
    /\ pid \in PIDs
    /\ NoDriver
    /\ conn \in Connections
    /\ key_type = None
    /\ interfaces = {}
    /\ info = NoneRec
    /\ raw = NoneRec
    /\ source = None

\* An exception leaves read_info: nothing catches it.
Raise(place, e) ==
    /\ pc' = "raised"
    /\ raised' = e
    /\ faults' = faults \cup {place}

\* An exception is caught and logged; the call goes on.
Swallow(place, e) ==
    faults' = IF e \in Fatal THEN faults \cup {place} ELSE faults

\* The resolver returns i to read_info (line 269, 271 or 273).
Return(i, src) ==
    /\ pc' = "resolved"
    /\ info' = i
    /\ raw' = i
    /\ source' = src

\* read_info, lines 261-275
ReadInfo ==
    /\ pc = "start"
    /\ key_type' = IF pid = NoneRec THEN None ELSE pid.yubikey_type
    /\ interfaces' = IF pid = NoneRec THEN {} ELSE pid.usb_interfaces
    /\ \/ /\ conn = "SmartCardConnection"
          /\ pc' = "ccid_mgmt"
          /\ UNCHANGED raised
       \/ /\ conn = "OtpConnection"
          /\ pc' = "otp_mgmt"
          /\ UNCHANGED raised
       \/ /\ conn = "FidoConnection"
          /\ pc' = "ctap_mgmt"
          /\ UNCHANGED raised
       \/ /\ conn \notin {"SmartCardConnection", "OtpConnection", "FidoConnection"}
          /\ pc' = "raised"
          /\ raised' = "TypeError"
    /\ UNCHANGED <<pid, driverVars, conn, info, raw, source, mgmt, otp, version, serial,
                   capabilities, n, table, applets, sleeps, serialReads,
                   serialRejects, mgmtRejects, notSupported, okRead, okSerial, faults, probed, name>>

\* ------------------------------------------------------ _read_info_ccid
SCAN_APPLETS ==
    << [aid |-> "FIDO", code |-> "U2F"],
       [aid |-> "U2F_YUBICO", code |-> "U2F"],
       [aid |-> "PIV", code |-> "PIV"],
       [aid |-> "OPENPGP", code |-> "OPENPGP"],
       [aid |-> "OATH", code |-> "OATH"] >>

\* One pass of the loop body, lines 126-137: r is what protocol.select(aid) did.
ProbeStep_assign(caps, entry, r) == IF r = "ok" THEN {entry.code} ELSE caps

ProbeStep(caps, entry, r) == IF r = "ok" THEN caps \cup {entry.code} ELSE caps

\* After a probe that raised something other than ApplicationNotAvailableError
\* the loop goes on with the next entry (lines 132-137).
RestAfter_abort(tbl, r) == IF r \in Fatal THEN <<>> ELSE Tail(tbl)

RestAfter(tbl, r) == Tail(tbl)

\* lines 118-120
DefaultVersion(v) == IF v = NoVersion THEN <<3, 0, 0>> ELSE v

ccidFrame ==
    UNCHANGED <<pid, driverVars, conn, key_type, interfaces, n, applets, sleeps, serialReads,
                serialRejects, mgmtRejects, notSupported, okRead, okSerial, name>>

\* line 102: what the try around the Management session catches
CcidMgmtCatches_all == {"ApplicationNotAvailableError"} \cup Fatal

CcidMgmtCatches == {"ApplicationNotAvailableError"}

\* lines 94-96, 102-103: ManagementSession(conn)
CcidMgmtSelect ==
    /\ pc = "ccid_mgmt"
    /\ \/ /\ \E v \in DevVersions : version' = v
          /\ mgmt' = TRUE
          /\ pc' = "ccid_read"
          /\ UNCHANGED <<raised, faults>>
       \/ \E e \in {"ApplicationNotAvailableError"} \cup Fatal :
             /\ IF e \in CcidMgmtCatches
                THEN /\ pc' = "ccid_otp"
                     /\ Swallow("ccid_mgmt_select", e)
                     /\ UNCHANGED raised
                ELSE Raise("ccid_mgmt_select", e)
             /\ UNCHANGED <<version, mgmt>>
    /\ UNCHANGED <<info, raw, source, otp, serial, capabilities, table, probed>>
    /\ ccidFrame

\* lines 97-99, 102: mgmt.read_device_info()
CcidReadInfo ==
    /\ pc = "ccid_read"
    /\ \/ /\ \E i \in DevMgmtInfos : Return(i, "mgmt")
          /\ UNCHANGED <<raised, faults>>
       \/ /\ pc' = "ccid_deselect"      \* NotSupportedError
          /\ UNCHANGED <<info, raw, source, raised, faults>>
       \/ /\ pc' = "ccid_otp"           \* ApplicationNotAvailableError
          /\ UNCHANGED <<info, raw, source, raised, faults>>
       \/ /\ \E e \in Fatal : Raise("ccid_read", e)
          /\ UNCHANGED <<info, raw, source>>
    /\ UNCHANGED <<mgmt, otp, version, serial, capabilities, table, probed>>
    /\ ccidFrame

\* lines 100-103: conn.send_and_receive(b"\xa4\x04\x00\x08")
CcidDeselect ==
    /\ pc = "ccid_deselect"
    /\ \/ /\ pc' = "ccid_otp"
          /\ UNCHANGED <<raised, faults>>
       \/ \E e \in Fatal : Raise("ccid_deselect", e)
    /\ UNCHANGED <<info, raw, source, mgmt, otp, version, serial, capabilities,
                   table, probed>>
    /\ ccidFrame

\* lines 109-110 with 68-69, and 114-120: YubiOtpSession(conn) in _otp_read_data
CcidOtpSelect ==
    /\ pc = "ccid_otp"
    /\ \/ /\ \E v \in DevVersions : otp' = [version |-> v]
          /\ pc' = "ccid_otp_serial"
          /\ UNCHANGED <<serial, version, table, raised, faults>>
       \/ /\ serial' = None             \* ApplicationNotAvailableError
          /\ version' = DefaultVersion(version)
          /\ table' = SCAN_APPLETS
          /\ pc' = "ccid_scan"
          /\ UNCHANGED <<otp, raised, faults>>
       \/ /\ \E e \in Fatal : Raise("ccid_otp_select", e)
          /\ UNCHANGED <<otp, serial, version, table>>
    /\ UNCHANGED <<info, raw, source, mgmt, capabilities, probed>>
    /\ ccidFrame

\* lines 70-75 (otp.get_serial() under "except Exception"), then 111-113, 118-120
CcidOtpSerial ==
    /\ pc = "ccid_otp_serial"
    /\ \/ /\ \E s \in Serials : serial' = s
          /\ UNCHANGED faults
       \/ \E e \in Fatal \cup {"CommandRejectedError"} :
             /\ serial' = None
             /\ Swallow("ccid_otp_serial", e)
    /\ capabilities' = capabilities \cup {"OTP"}
    /\ version' = DefaultVersion(IF version = NoVersion THEN otp.version ELSE version)
    /\ otp' = NoneRec                   \* _otp_read_data's local
    /\ table' = SCAN_APPLETS
    /\ pc' = "ccid_scan"
    /\ UNCHANGED <<info, raw, source, mgmt, raised, probed>>
    /\ ccidFrame

\* lines 125-137: one entry of the probe table.  The device's answer is applets[aid]
\* when the device is fixed beforehand, and any answer otherwise.
CcidProbe ==
    /\ pc = "ccid_scan"
    /\ table # <<>>
    /\ \E r \in {"ok", "ApplicationNotAvailableError"} \cup Fatal :
          /\ applets # NoneRec => r = applets[Head(table).aid]
          /\ capabilities' = ProbeStep(capabilities, Head(table), r)
          /\ table' = RestAfter(table, r)
          /\ Swallow("ccid_probe", r)
    /\ probed' = probed \cup {Head(table).aid}
    /\ UNCHANGED <<pc, info, raw, source, mgmt, otp, version, serial, raised>>
    /\ ccidFrame

\* lines 139-158
CcidSynth ==
    /\ pc = "ccid_scan"
    /\ table = <<>>
    /\ applets = NoneRec
    /\ LET caps == IF "FIDO" \in interfaces \/ VLeq(<<3, 3, 0>>, version)
                   THEN capabilities \cup {"U2F"}
                   ELSE capabilities
       IN  /\ capabilities' = caps
           /\ Return(DeviceInfo(serial, version, "UNKNOWN",
                                [t \in TRANSPORT |-> caps], EmptyDict, FALSE, FALSE),
                     "synth")
    /\ UNCHANGED <<mgmt, otp, version, serial, table, raised, faults, probed>>
    /\ ccidFrame

\* ------------------------------------------------------- _read_info_otp
\* range(8), line 171
ReclaimTries_more == 8 + 1

ReclaimTries == 8

otpFrame ==
    UNCHANGED <<pid, driverVars, conn, key_type, interfaces, version, capabilities, table,
                applets, probed, name>>

otpCounters == <<sleeps, serialReads, serialRejects, mgmtRejects, notSupported, okRead, okSerial>>

\* lines 165-167: ManagementSession(conn)
OtpMgmtSelect ==
    /\ pc = "otp_mgmt"
    /\ \/ /\ mgmt' = TRUE
          /\ pc' = "otp_loop"
          /\ UNCHANGED <<raised, faults>>
       \/ /\ pc' = "otp_session"        \* ApplicationNotAvailableError
          /\ UNCHANGED <<mgmt, raised, faults>>
       \/ /\ \E e \in Fatal : Raise("otp_mgmt_select", e)
          /\ UNCHANGED mgmt
    /\ UNCHANGED <<info, raw, source, otp, serial, n>>
    /\ UNCHANGED otpCounters
    /\ otpFrame

\* lines 168, 177 and 186: otp = YubiOtpSession(conn)
OtpSession ==
    /\ pc \in {"otp_session", "otp_session_ns", "otp_session_else"}
    /\ \/ /\ \E v \in DevVersions : otp' = [version |-> v]
          /\ pc' = CASE pc = "otp_session" -> "otp_loop"
                     [] pc = "otp_session_ns" -> "otp_serial"
                     [] pc = "otp_session_else" -> "otp_synth"
          /\ UNCHANGED <<raised, faults>>
       \/ /\ \E e \in Fatal : Raise("otp_session", e)
          /\ UNCHANGED otp
    /\ UNCHANGED <<info, raw, source, mgmt, serial, n>>
    /\ UNCHANGED otpCounters
    /\ otpFrame

\* lines 180-184: where "except CommandRejectedError" leaves the loop body
OnCommandRejected_alwaysSleep == "otp_sleep"

OnCommandRejected_whateverRejected ==
    IF interfaces = {"OTP"} THEN "otp_synth" ELSE "otp_sleep"

OnCommandRejected ==
    IF otp # NoneRec /\ interfaces = {"OTP"} THEN "otp_synth" ELSE "otp_sleep"

\* lines 176-177: where "except NotSupportedError" goes on
OnNotSupported_sleep == "otp_sleep"

OnNotSupported == "otp_session_ns"

\* lines 171-177 and 180-184: mgmt.read_device_info() in the loop
OtpReadInfo ==
    /\ pc = "otp_loop"
    /\ n < ReclaimTries
    /\ otp = NoneRec
    /\ \/ /\ \E i \in DevMgmtInfos : Return(i, "mgmt")
          /\ UNCHANGED <<mgmtRejects, notSupported, raised, faults>>
       \/ /\ pc' = OnNotSupported       \* NotSupportedError
          /\ notSupported' = TRUE
          /\ UNCHANGED <<info, raw, source, mgmtRejects, raised, faults>>
       \/ /\ pc' = OnCommandRejected    \* CommandRejectedError
          /\ mgmtRejects' = mgmtRejects + 1
          /\ UNCHANGED notSupported
          /\ UNCHANGED <<info, raw, source, raised, faults>>
       \/ /\ \E e \in Fatal : Raise("otp_read", e)
          /\ UNCHANGED <<info, raw, source, mgmtRejects, notSupported>>
    /\ UNCHANGED <<mgmt, otp, serial, n, sleeps, serialReads, serialRejects, okRead,
                   okSerial>>
    /\ otpFrame

\* Where a serial read that succeeded leaves the loop (line 179: break)
AfterSerial_retry == "otp_sleep"

AfterSerial == "otp_synth"

\* lines 178-184: otp.get_serial() in the loop
OtpGetSerial ==
    /\ \/ pc = "otp_loop" /\ n < ReclaimTries /\ otp # NoneRec
       \/ pc = "otp_serial"
    /\ serialReads' = serialReads + 1
    /\ \/ /\ \E s \in Serials : serial' = s /\ okSerial' = s
          /\ okRead' = serialReads + 1
          /\ pc' = AfterSerial
          /\ UNCHANGED <<serialRejects, raised, faults>>
       \/ /\ pc' = OnCommandRejected    \* CommandRejectedError
          /\ serialRejects' = serialRejects + 1
          /\ UNCHANGED <<serial, okSerial, okRead, raised, faults>>
       \/ /\ \E e \in Fatal : Raise("otp_serial", e)
          /\ UNCHANGED <<serial, okSerial, okRead, serialRejects>>
    /\ UNCHANGED <<info, raw, source, mgmt, otp, n, sleeps, mgmtRejects, notSupported>>
    /\ otpFrame

\* line 184: sleep(0.5), then the next iteration
OtpSleep ==
    /\ pc = "otp_sleep"
    /\ sleeps' = sleeps + 1
    /\ n' = n + 1
    /\ pc' = "otp_loop"
    /\ UNCHANGED <<info, raw, source, mgmt, otp, serial, raised, faults, serialReads,
                   serialRejects, mgmtRejects, notSupported, okRead, okSerial>>
    /\ otpFrame

\* lines 185-186: the loop ran out
OtpExhausted ==
    /\ pc = "otp_loop"
    /\ n = ReclaimTries
    /\ pc' = "otp_session_else"
    /\ UNCHANGED <<info, raw, source, mgmt, otp, serial, n, raised, faults>>
    /\ UNCHANGED otpCounters
    /\ otpFrame

\* lines 191-207
OtpCapabilities(kt, ifs, v) ==
    IF kt = "NEO"
    THEN LET usb_supported ==
                 IF "FIDO" \in ifs \/ VLeq(<<3, 3, 0>>, v)
                 THEN BASE_NEO_APPS \cup {"U2F"}
                 ELSE BASE_NEO_APPS
         IN  [t \in TRANSPORT |-> usb_supported]
    ELSE IF kt = "YKP"
    THEN [t \in {"USB"} |-> {"OTP", "U2F"}]
    ELSE [t \in {"USB"} |-> {"OTP"}]

\* The version of the synthesized record (line 191)
OtpSynthVersion_guess == <<3, 0, 0>>

OtpSynthVersion == otp.version

\* lines 188-221
OtpSynth ==
    /\ pc = "otp_synth"
    /\ IF otp = NoneRec
       THEN /\ pc' = "raised"          \* line 191: None has no attribute version
            /\ raised' = "AttributeError"
            /\ UNCHANGED <<info, raw, source>>
       ELSE /\ Return(DeviceInfo(serial, OtpSynthVersion, "UNKNOWN",
                                 OtpCapabilities(key_type, interfaces, OtpSynthVersion),
                                 EmptyDict, FALSE, FALSE),
                      "synth")
            /\ UNCHANGED raised
    /\ UNCHANGED <<mgmt, otp, serial, n, faults>>
    /\ UNCHANGED otpCounters
    /\ otpFrame

\* ------------------------------------------------------ _read_info_ctap
\* lines 231-254
CtapSynthInfo_noNfc(kt) ==
    LET v   == IF kt = "YKP" THEN <<4, 0, 0>> ELSE <<3, 0, 0>>
        usb == IF kt = "NEO" THEN {"U2F"} \cup BASE_NEO_APPS ELSE {"U2F"}
    IN  DeviceInfo(None, v, "USB_A_KEYCHAIN", [t \in {"USB"} |-> usb], EmptyDict,
                   FALSE, FALSE)

CtapSynthInfo(kt) ==
    LET v   == IF kt = "YKP" THEN <<4, 0, 0>> ELSE <<3, 0, 0>>
        usb == IF kt = "NEO" THEN {"U2F"} \cup BASE_NEO_APPS ELSE {"U2F"}
        sup == IF kt = "NEO"
               THEN [t \in TRANSPORT |-> usb]
               ELSE [t \in {"USB"} |-> usb]
    IN  DeviceInfo(None, v, "USB_A_KEYCHAIN", sup, EmptyDict, FALSE, FALSE)

ctapFrame ==
    UNCHANGED <<pid, driverVars, conn, key_type, interfaces, otp, version, serial, capabilities,
                n, table, applets, raised, sleeps, serialReads, serialRejects,
                mgmtRejects, notSupported, okRead, okSerial, probed, name>>

\* lines 225-226 under "except Exception" (228)
CtapMgmtSelect ==
    /\ pc = "ctap_mgmt"
    /\ \/ /\ mgmt' = TRUE
          /\ pc' = "ctap_read"
          /\ UNCHANGED <<info, raw, source, faults>>
       \/ \E e \in Fatal \cup {"ApplicationNotAvailableError"} :
             /\ Swallow("ctap_mgmt_select", e)
             /\ Return(CtapSynthInfo(key_type), "synth")
             /\ UNCHANGED mgmt
    /\ ctapFrame

\* line 227 under "except Exception" (228)
CtapReadInfo ==
    /\ pc = "ctap_read"
    /\ \/ /\ \E i \in DevMgmtInfos : Return(i, "mgmt")
          /\ UNCHANGED faults
       \/ \E e \in Fatal \cup {"NotSupportedError"} :
             /\ Swallow("ctap_read", e)
             /\ Return(CtapSynthInfo(key_type), "synth")
    /\ UNCHANGED mgmt
    /\ ctapFrame

\* --------------------------------------------------------------- read_info
Next ==
    \/ ReadInfo
    \/ CcidMgmtSelect
    \/ CcidReadInfo
    \/ CcidDeselect
    \/ CcidOtpSelect
    \/ CcidOtpSerial
    \/ CcidProbe
    \/ CcidSynth
    \/ OtpMgmtSelect
    \/ OtpSession
    \/ OtpReadInfo
    \/ OtpGetSerial
    \/ OtpSleep
    \/ OtpExhausted
    \/ OtpSynth
    \/ CtapMgmtSelect
    \/ CtapReadInfo
    \/ NormalizeInfo

Spec == Init /\ [][Next]_vars

\* read_info over an OTP connection; a call that has started runs to its end.
InitOtp == Init /\ conn = "OtpConnection"

NextOtp ==
    \/ ReadInfo
    \/ OtpMgmtSelect
    \/ OtpSession
    \/ OtpReadInfo
    \/ OtpGetSerial
    \/ OtpSleep
    \/ OtpExhausted
    \/ OtpSynth
    \/ NormalizeInfo

FairSpecOtp == InitOtp /\ [][NextOtp]_vars /\ WF_vars(NextOtp)

\* =================================================== the applet probe alone
\* ykman/driver_ccid.py
SW_OK == 36864

KNOWN_APPLETS ==
    << [aid |-> "OTP", code |-> "OTP"],
       [aid |-> "FIDO", code |-> "U2F"],
       [aid |-> "U2F_YUBICO", code |-> "U2F"],
       [aid |-> "PIV", code |-> "PIV"],
       [aid |-> "OPENPGP", code |-> "OPGP"],
       [aid |-> "OATH", code |-> "OATH"] >>

\* Status words a SELECT is answered with: success, or "file not found".
StatusWords == {SW_OK, 27266}

\* driver_ccid.py lines 97-99: sw is the status word of the SELECT
DriverProbeStep(capa, entry, sw) == IF sw = SW_OK THEN capa \cup {entry.code} ELSE capa

\* The orders in which a table can be laid out.
Orders(tbl) ==
    {[i \in 1..Len(tbl) |-> tbl[p[i]]] :
        p \in {q \in [1..Len(tbl) -> 1..Len(tbl)] :
                  \A i, j \in 1..Len(tbl) : q[i] = q[j] => i = j}}

Aids(tbl) == {tbl[i].aid : i \in 1..Len(tbl)}

scanFrame ==
    UNCHANGED <<pid, driverVars, conn, key_type, interfaces, info, raw, source, mgmt, otp,
                version, serial, n, applets, sleeps, serialReads,
                serialRejects, mgmtRejects, notSupported, okRead, okSerial, name>>

\* The device is fixed: applets says how it answers each SELECT.  The table is
\* laid out in any order.  Either _read_info_ccid is about to scan (line 125,
\* with or without OTP found before), or probe_capabilities_support starts
\* (driver_ccid.py line 95).
InitScan ==
    /\ pid = NoneRec
    /\ NoDriver
    /\ conn = "SmartCardConnection"
    /\ key_type = None
    /\ interfaces = {}
    /\ info = NoneRec
    /\ raw = NoneRec
    /\ source = None
    /\ mgmt = FALSE
    /\ otp = NoneRec
    /\ version = NoVersion
    /\ serial = None
    /\ n = 0
    /\ raised = None
    /\ sleeps = 0
    /\ serialReads = 0
    /\ serialRejects = 0
    /\ mgmtRejects = 0
    /\ notSupported = FALSE
    /\ okRead = 0
    /\ okSerial = None
    /\ faults = {}
    /\ probed = {}
    /\ name = <<>>
    /\ \/ /\ pc = "ccid_scan"
          /\ table \in Orders(SCAN_APPLETS)
          /\ applets \in [Aids(SCAN_APPLETS) ->
                            {"ok", "ApplicationNotAvailableError", "ChannelError"}]
          /\ capabilities \in {{}, {"OTP"}}
       \/ /\ pc = "drv_probe"
          /\ table \in Orders(KNOWN_APPLETS)
          /\ applets \in [Aids(KNOWN_APPLETS) -> StatusWords]
          /\ capabilities = {"CCID"}

\* driver_ccid.py lines 96-99: one entry of KNOWN_APPLETS.  The SELECT is
\* answered with a status word, or transmit (line 105) fails on the channel:
\* nothing catches that, and the call ends there.
DriverProbe ==
    /\ pc = "drv_probe"
    /\ table # <<>>
    /\ probed' = probed \cup {Head(table).aid}
    /\ \/ /\ capabilities' = DriverProbeStep(capabilities, Head(table),
                                              applets[Head(table).aid])
          /\ table' = Tail(table)
          /\ UNCHANGED <<pc, raised, faults>>
       \/ /\ pc' = "drv_raised"
          /\ raised' = "ChannelError"
          /\ faults' = faults \cup {"drv_probe"}
          /\ UNCHANGED <<capabilities, table>>
    /\ scanFrame

NextScan == CcidProbe \/ DriverProbe

SpecScan == InitScan /\ [][NextScan]_vars

\* ================================================================ get_name
\* Text is a sequence of one-character strings.
Str_YubiKey == <<"Y", "u", "b", "i", "K", "e", "y">>

Str_SecurityKey == <<"S", "e", "c", "u", "r", "i", "t", "y", " ", "K", "e", "y">>

Str_FidoU2fSecurityKey == <<"F", "I", "D", "O", " ", "U", "2", "F", " ", "S", "e", "c", "u", "r", "i", "t", "y", " ", "K", "e", "y">>

Str_SecurityKeyNfc == <<"S", "e", "c", "u", "r", "i", "t", "y", " ", "K", "e", "y", " ", "N", "F", "C">>

Str_YubiKeyFips == <<"Y", "u", "b", "i", "K", "e", "y", " ", "F", "I", "P", "S">>

Str_YubiKeyEdge == <<"Y", "u", "b", "i", "K", "e", "y", " ", "E", "d", "g", "e">>

Str_YubiKey4 == <<"Y", "u", "b", "i", "K", "e", "y", " ", "4">>

Str_YubiKeyPreview == <<"Y", "u", "b", "i", "K", "e", "y", " ", "P", "r", "e", "v", "i", "e", "w">>

Str_FidoEdition == <<"-", " ", "F", "I", "D", "O", " ", "E", "d", "i", "t", "i", "o", "n">>

\* YUBIKEY.value
KeyTypeValue(kt) ==
    CASE kt = "YKS" -> <<"Y", "u", "b", "i", "K", "e", "y", " ", "S", "t", "a", "n", "d", "a", "r", "d">>
      [] kt = "NEO" -> <<"Y", "u", "b", "i", "K", "e", "y", " ", "N", "E", "O">>
      [] kt = "SKY" -> <<"S", "e", "c", "u", "r", "i", "t", "y", " ", "K", "e", "y", " ", "b", "y", " ", "Y", "u", "b", "i", "c", "o">>
      [] kt = "YKP" -> <<"Y", "u", "b", "i", "K", "e", "y", " ", "P", "l", "u", "s">>
      [] kt = "YK4" -> Str_YubiKey

DigitChars == <<"0", "1", "2", "3", "4", "5", "6", "7", "8", "9">>

\* str(int)
RECURSIVE Decimal(_)
Decimal(k) ==
    IF k < 10
    THEN <<DigitChars[k + 1]>>
    ELSE Decimal(k \div 10) \o <<DigitChars[(k % 10) + 1]>>

\* str(Version): "major.minor.patch"
VersionStr(v) == Decimal(v[1]) \o <<".">> \o Decimal(v[2]) \o <<".">> \o Decimal(v[3])

\* sep.join(parts)
RECURSIVE Join(_, _)
Join(parts, sep) ==
    IF parts = <<>> THEN <<>>
    ELSE IF Len(parts) = 1 THEN Head(parts)
    ELSE Head(parts) \o sep \o Join(Tail(parts), sep)

\* str.replace(old, new): every non-overlapping occurrence, left to right
RECURSIVE Replace(_, _, _)
Replace(str, old, new) ==
    IF Len(str) < Len(old) THEN str
    ELSE IF SubSeq(str, 1, Len(old)) = old
    THEN new \o Replace(SubSeq(str, Len(old) + 1, Len(str)), old, new)
    ELSE <<Head(str)>> \o Replace(Tail(str), old, new)

\* lines 336-337
fido_only(caps) == caps \ {"U2F", "FIDO2"} = {}

\* lines 341-345
PREVIEW_RANGES ==
    { <<<<5, 0, 0>>, <<5, 1, 0>>>>,
      <<<<5, 2, 0>>, <<5, 2, 3>>>>,
      <<<<5, 5, 0>>, <<5, 5, 2>>>> }

\* lines 340-349
is_preview_none(v) == FALSE

is_preview_endIncl(v) == \E r \in PREVIEW_RANGES : VLeq(r[1], v) /\ VLeq(v, r[2])

is_preview(v) == \E r \in PREVIEW_RANGES : VLeq(r[1], v) /\ VLess(v, r[2])

\* lines 355-361
Classify(i, kt) ==
    IF kt # None THEN kt
    ELSE IF i.serial = None /\ fido_only(i.supported_capabilities["USB"]) THEN "SKY"
    ELSE IF i.version[1] = 3 THEN "NEO"
    ELSE "YK4"

\* lines 388-420: name_parts
NameParts_nfcFirst(i) ==
    LET is_nano == i.form_factor \in {"USB_A_NANO", "USB_C_NANO"}
        is_bio  == i.form_factor \in {"USB_A_BIO", "USB_C_BIO"}
        is_c    == i.form_factor \in {"USB_C_KEYCHAIN", "USB_C_NANO", "USB_C_BIO"}
    IN  (IF i.is_sky THEN <<Str_SecurityKey>>
         ELSE IF is_bio THEN <<Str_YubiKey>> ELSE <<Str_YubiKey, <<"5">>>>)
        \o (IF has_transport(i, "NFC") THEN <<<<"N", "F", "C">>>>
            ELSE IF i.form_factor = "USB_A_KEYCHAIN" THEN <<<<"A">>>> ELSE <<>>)
        \o (IF is_c THEN <<<<"C">>>>
            ELSE IF i.form_factor = "USB_C_LIGHTNING" THEN <<<<"C", "i">>>> ELSE <<>>)
        \o (IF is_nano THEN <<<<"N", "a", "n", "o">>>> ELSE <<>>)
        \o (IF is_bio
            THEN IF fido_only(i.supported_capabilities["USB"])
                 THEN <<<<"B", "i", "o">>, Str_FidoEdition>>
                 ELSE <<<<"B", "i", "o">>>>
            ELSE <<>>)
        \o (IF i.is_fips THEN <<<<"F", "I", "P", "S">>>> ELSE <<>>)

NameParts(i) ==
    LET is_nano == i.form_factor \in {"USB_A_NANO", "USB_C_NANO"}
        is_bio  == i.form_factor \in {"USB_A_BIO", "USB_C_BIO"}
        is_c    == i.form_factor \in {"USB_C_KEYCHAIN", "USB_C_NANO", "USB_C_BIO"}
    IN  (IF i.is_sky THEN <<Str_SecurityKey>>
         ELSE IF is_bio THEN <<Str_YubiKey>> ELSE <<Str_YubiKey, <<"5">>>>)
        \o (IF is_c THEN <<<<"C">>>>
            ELSE IF i.form_factor = "USB_C_LIGHTNING" THEN <<<<"C", "i">>>> ELSE <<>>)
        \o (IF is_nano THEN <<<<"N", "a", "n", "o">>>> ELSE <<>>)
        \o (IF has_transport(i, "NFC") THEN <<<<"N", "F", "C">>>>
            ELSE IF i.form_factor = "USB_A_KEYCHAIN" THEN <<<<"A">>>> ELSE <<>>)
        \o (IF is_bio
            THEN IF fido_only(i.supported_capabilities["USB"])
                 THEN <<<<"B", "i", "o">>, Str_FidoEdition>>
                 ELSE <<<<"B", "i", "o">>>>
            ELSE <<>>)
        \o (IF i.is_fips THEN <<<<"F", "I", "P", "S">>>> ELSE <<>>)

\* line 421
ComposedName(i) ==
    Replace(Replace(Join(NameParts(i), <<" ">>), <<"5", " ", "C">>, <<"5", "C">>), <<"5", " ", "A">>, <<"5", "A">>)

\* lines 352-423
get_name(i, kt0) ==
    LET usb_supported == i.supported_capabilities["USB"]
        kt == Classify(i, kt0)
        device_name == KeyTypeValue(kt)
    IN  IF kt = "SKY"
        THEN IF has_transport(i, "NFC") THEN Str_SecurityKeyNfc
             ELSE IF "FIDO2" \notin usb_supported THEN Str_FidoU2fSecurityKey
             ELSE device_name
        ELSE IF kt = "YK4"
        THEN IF i.version[1] < 4
             THEN IF i.version[1] = 0
                  THEN Str_YubiKey \o <<" ", "(">> \o VersionStr(i.version) \o <<")">>
                  ELSE Str_YubiKey
             ELSE IF is_preview(i.version) THEN Str_YubiKeyPreview
             ELSE IF VLeq(<<5, 1, 0>>, i.version) THEN ComposedName(i)
             ELSE IF i.version[1] = 4
             THEN IF is_fips_version(i.version) THEN Str_YubiKeyFips
                  ELSE IF usb_supported = {"OTP", "U2F"} THEN Str_YubiKeyEdge
                  ELSE Str_YubiKey4
             ELSE device_name
        ELSE device_name

\* The DeviceInfo records get_name is called with.
NameInfos ==
    {DeviceInfo(ser, v, f, s, EmptyDict, fips, sky) :
        ser \in {None, "serial1"},
        v \in Version,
        f \in FORM_FACTOR,
        s \in Dicts({{"U2F"}, {"U2F", "FIDO2"}, {"OTP", "U2F"},
                     {"OTP", "U2F", "FIDO2", "OATH", "PIV", "OPENPGP"}}, {{"U2F"}})
              \ Dicts({}, {{"U2F"}}),
        fips \in BOOLEAN,
        sky \in BOOLEAN}

InitName ==
    /\ Idle
    /\ pc = "name"
    /\ pid = NoneRec
    /\ NoDriver
    /\ conn = None
    /\ key_type \in YUBIKEY \cup {None}
    /\ interfaces = {}
    /\ info \in NameInfos
    /\ raw = NoneRec
    /\ source = None

\* get_name(info, key_type)
GetName ==
    /\ pc = "name"
    /\ name' = get_name(info, key_type)
    /\ pc' = "named"
    /\ UNCHANGED <<pid, driverVars, conn, key_type, interfaces, info, raw, source, mgmt, otp,
                   version, serial, capabilities, n, table, applets, raised, sleeps,
                   serialReads, serialRejects, mgmtRejects, notSupported, okRead, okSerial, faults,
                   probed>>

NextName == GetName

SpecName == InitName /\ [][NextName]_vars

\* ============================================ ykman/driver_ccid.py: CCIDDriver
\* Byte strings are sequences of numbers 0..255.
INS_SELECT == 164

INS_YK4_CAPABILITIES == 29

INS_YK2_REQ == 1

SLOT_DEVICE_SERIAL == 16

SLOT_DEVICE_CONFIG == 17

INS_NEO_TEST == 22

OTP_AID == <<160, 0, 0, 5, 39, 32, 1>>

MGR_AID == <<160, 0, 0, 5, 39, 71, 17, 23>>

\* line 87: b'\x03\x01\x01\x3f'
CAPABILITIES_424 == <<3, 1, 1, 63>>

\* a | b on naturals
RECURSIVE BitOr(_, _)
BitOr(a, b) ==
    IF a = 0 THEN b
    ELSE IF b = 0 THEN a
    ELSE (IF a % 2 = 1 \/ b % 2 = 1 THEN 1 ELSE 0) + 2 * BitOr(a \div 2, b \div 2)

\* line 106: sw1 << 8 | sw2
StatusWord_swapped(sw1, sw2) == BitOr(sw2 * 256, sw1)

StatusWord(sw1, sw2) == BitOr(sw1 * 256, sw2)

\* lines 103-105: header + body
Apdu_noLength(call) == <<call.cl, call.ins, call.p1, call.p2>> \o call.data

Apdu(call) == <<call.cl, call.ins, call.p1, call.p2, Len(call.data)>> \o call.data

\* the arguments of a send_apdu call
Call(cl, ins, p1, p2, data) == [cl |-> cl, ins |-> ins, p1 |-> p1, p2 |-> p2, data |-> data]

\* line 105: transmits made by one send_apdu call, whether or not transmit fails
Attempts_retry(failed) == IF failed THEN 2 ELSE 1

Attempts(failed) == 1

\* struct.unpack('>I', serial)[0]
UnpackBigEndian(b) == ((b[1] * 256 + b[2]) * 256 + b[3]) * 256 + b[4]

\* struct.pack('BBH', mode_code, cr_timeout, autoeject_time), little-endian host
PackMode(mode_code, cr_timeout, autoeject_time) ==
    <<mode_code, cr_timeout, autoeject_time % 256, autoeject_time \div 256>>

\* s[:3]
Prefix3(s) == SubSeq(s, 1, IF Len(s) < 3 THEN Len(s) ELSE 3)

\* What the card can answer.  A SELECT is accepted (9000; the OTP applet answers
\* with its version and more) or refused (6A82); any other command is answered
\* with 9000 or 6985, and the card decides the data in both cases.
Firmware == {<<4, 2, 4>>, <<4, 3, 1>>}

Answer(sw1, sw2, resp) == [sw1 |-> sw1, sw2 |-> sw2, resp |-> resp]

Answers(call) ==
    IF call.ins = INS_SELECT
    THEN {Answer(106, 130, <<>>)}
         \cup (IF call.data = OTP_AID
               THEN {Answer(144, 0, v \o <<3>>) : v \in Firmware}
               ELSE {Answer(144, 0, <<>>)})
    ELSE {Answer(b[1], b[2], r) :
             b \in {<<144, 0>>, <<105, 133>>},
             r \in IF call.p1 = SLOT_DEVICE_SERIAL THEN {<<0, 0, 48, 57>>, <<1, 2>>}
                   ELSE IF call.ins = INS_YK4_CAPABILITIES THEN {<<3, 1, 1, 55>>, <<>>}
                   ELSE {<<>>}}

Drivers == {"d1", "d2"}

\* A driver object and the locals of the call it runs.
Driver(p, ver, ser, mode, idx, apdus, sel0, ret, outcome) ==
    [pc |-> p, version |-> ver, serial |-> ser, mode |-> mode, idx |-> idx,
     apdus |-> apdus, sel0 |-> sel0, ret |-> ret, outcome |-> outcome]

NewDriver(p) == Driver(p, NoVersion, <<>>, 0, 0, 0, <<>>, <<>>, None)

\* Everything but the driver and its connection.
supportVars ==
    <<pc, pid, conn, key_type, interfaces, info, raw, source, mgmt, otp, version,
      serial, capabilities, n, table, applets, raised, sleeps, serialReads,
      serialRejects, mgmtRejects, notSupported, okRead, okSerial, faults, probed,
      name>>

\* One connection to a card; d1 drives it, alone or together with d2.
InitDriver ==
    /\ Idle
    /\ pc = "driver"
    /\ pid = NoneRec
    /\ conn = "SmartCardConnection"
    /\ key_type = None
    /\ interfaces = {}
    /\ info = NoneRec
    /\ raw = NoneRec
    /\ source = None
    /\ drivers \in {[d \in Drivers |-> NewDriver(IF d = "d1" THEN "new" ELSE p)] :
                       p \in {"new", "absent"}}
    /\ selected \in {<<>>, MGR_AID}
    /\ wire = NoneRec
    /\ sends = 0
    /\ transmits = 0
    /\ used = {}

\* lines 102-106: send_apdu(call) by driver d, answered by the card with ans.
\* The command goes to the applet selected at that moment; an accepted SELECT
\* changes the selection.
Delivered(d, call, ans) ==
    /\ wire' = [by |-> d, call |-> call, apdu |-> Apdu(call), routed |-> selected,
                sw1 |-> ans.sw1, sw2 |-> ans.sw2, resp |-> ans.resp,
                sw |-> StatusWord(ans.sw1, ans.sw2),
                prev |-> IF wire = NoneRec THEN NoneRec
                         ELSE [by |-> wire.by, call |-> wire.call, sw |-> wire.sw]]
    /\ selected' = IF call.ins = INS_SELECT /\ ans.sw1 = 144 /\ ans.sw2 = 0
                   THEN call.data
                   ELSE selected
    /\ sends' = sends + 1
    /\ transmits' = transmits + Attempts(FALSE)

\* line 105: transmit raises; nothing in the driver catches it
Failed(d) ==
    /\ sends' = sends + 1
    /\ transmits' = transmits + Attempts(TRUE)
    /\ drivers' = [drivers EXCEPT ![d].pc = "done", ![d].outcome = "ChannelError"]
    /\ UNCHANGED <<selected, wire, used>>

Used(what, sw) == [what |-> what, sw |-> sw]

\* lines 79, 89 and 111: the test made on the status word of a SELECT
SelectOk_any(sw) == TRUE

SelectOk(sw) == sw = SW_OK

\* lines 68-80: __init__ up to the SELECT of _read_version; the reader's name
\* presets the version (NEO: 3.0.0, YubiKey 4: 4.1.0)
DrvInit(d) ==
    /\ drivers[d].pc = "new"
    /\ LET call == Call(0, INS_SELECT, 4, 0, OTP_AID) IN
       \/ \E preset \in {NoVersion, <<3, 0, 0>>, <<4, 1, 0>>}, ans \in Answers(call) :
             LET sw == StatusWord(ans.sw1, ans.sw2) IN
             /\ Delivered(d, call, ans)
             /\ drivers' = [drivers EXCEPT ![d] =
                   IF SelectOk(sw)
                   THEN [@ EXCEPT !.pc = "rv_serial", !.version = Prefix3(ans.resp)]
                   ELSE [@ EXCEPT !.pc = "idle", !.version = preset]]
             /\ used' = IF SelectOk(sw) THEN used \cup {Used("version", sw)} ELSE used
       \/ Failed(d)
    /\ UNCHANGED supportVars

\* lines 81-83
DrvReadSerial(d) ==
    /\ drivers[d].pc = "rv_serial"
    /\ LET call == Call(0, INS_YK2_REQ, SLOT_DEVICE_SERIAL, 0, <<>>) IN
       \/ \E ans \in Answers(call) :
             LET sw == StatusWord(ans.sw1, ans.sw2)
                 ok == Len(ans.resp) = 4 /\ sw = SW_OK
             IN
             /\ Delivered(d, call, ans)
             /\ drivers' = [drivers EXCEPT ![d] =
                   IF ok
                   THEN [@ EXCEPT !.pc = "idle", !.serial = <<UnpackBigEndian(ans.resp)>>]
                   ELSE [@ EXCEPT !.pc = "idle"]]
             /\ used' = IF ok THEN used \cup {Used("serial", sw)} ELSE used
       \/ Failed(d)
    /\ UNCHANGED supportVars

\* line 86: "4.2.4 doesn't report correctly"
Misreports_never(v) == FALSE

Misreports(v) == v = <<4, 2, 4>>

\* lines 85-90: read_capabilities up to the SELECT of the management applet
DrvReadCapabilities(d) ==
    /\ drivers[d].pc = "idle"
    /\ IF Misreports(drivers[d].version)
       THEN /\ drivers' = [drivers EXCEPT ![d] =
                  [@ EXCEPT !.pc = "done", !.ret = CAPABILITIES_424,
                            !.outcome = "read_capabilities", !.sel0 = selected]]
            /\ UNCHANGED <<selected, wire, sends, transmits, used>>
       ELSE LET call == Call(0, INS_SELECT, 4, 0, MGR_AID) IN
            \/ \E ans \in Answers(call) :
                  /\ Delivered(d, call, ans)
                  /\ drivers' = [drivers EXCEPT ![d] =
                        IF ~SelectOk(StatusWord(ans.sw1, ans.sw2))
                        THEN [@ EXCEPT !.pc = "done", !.ret = <<>>, !.apdus = 1,
                                       !.outcome = "read_capabilities",
                                       !.sel0 = selected]
                        ELSE [@ EXCEPT !.pc = "rc_query", !.apdus = 1,
                                       !.sel0 = selected]]
                  /\ UNCHANGED used
            \/ Failed(d)
    /\ UNCHANGED supportVars

\* Whether the capability query's data is returned (lines 91-92: sw is read
\* and not looked at)
ReturnsCapabilities_ifOk(sw) == sw = SW_OK

ReturnsCapabilities(sw) == TRUE

\* lines 91-92
DrvCapabilityQuery(d) ==
    /\ drivers[d].pc = "rc_query"
    /\ LET call == Call(0, INS_YK4_CAPABILITIES, 0, 0, <<>>) IN
       \/ \E ans \in Answers(call) :
             LET sw == StatusWord(ans.sw1, ans.sw2) IN
             /\ Delivered(d, call, ans)
             /\ drivers' = [drivers EXCEPT ![d] =
                   [@ EXCEPT !.pc = "done", !.apdus = @ + 1,
                             !.outcome = "read_capabilities",
                             !.ret = IF ReturnsCapabilities(sw) THEN ans.resp ELSE <<>>]]
             /\ used' = IF ReturnsCapabilities(sw)
                        THEN used \cup {Used("capabilities", sw)}
                        ELSE used
       \/ Failed(d)
    /\ UNCHANGED supportVars

\* line 109
SetModeApplets_mgrFirst ==
    << [aid |-> MGR_AID, ins |-> INS_NEO_TEST],
       [aid |-> OTP_AID, ins |-> INS_YK2_REQ] >>

SetModeApplets ==
    << [aid |-> OTP_AID, ins |-> INS_YK2_REQ],
       [aid |-> MGR_AID, ins |-> INS_NEO_TEST] >>

\* mode_code arguments
Modes == {2, 6}

\* lines 109-111 and 118: the SELECT of one loop iteration
DrvSetModeSelect(d) ==
    /\ drivers[d].pc \in {"idle", "sm_select"}
    /\ LET first == drivers[d].pc = "idle"
           idx   == IF first THEN 1 ELSE drivers[d].idx
           call  == Call(0, INS_SELECT, 4, 0, SetModeApplets[idx].aid)
       IN
       \/ \E mode \in (IF first THEN Modes ELSE {drivers[d].mode}),
             ans \in Answers(call) :
             /\ Delivered(d, call, ans)
             /\ drivers' = [drivers EXCEPT ![d] =
                   LET c == [@ EXCEPT !.mode = mode, !.idx = idx,
                                      !.apdus = IF first THEN 1 ELSE @ + 1,
                                      !.sel0 = IF first THEN selected ELSE @]
                   IN  IF SelectOk(StatusWord(ans.sw1, ans.sw2))
                       THEN [c EXCEPT !.pc = "sm_write"]
                       ELSE IF idx = Len(SetModeApplets)
                       THEN [c EXCEPT !.pc = "done",
                                      !.outcome = "Selecting applet failed!"]
                       ELSE [c EXCEPT !.pc = "sm_select", !.idx = idx + 1]]
             /\ UNCHANGED used
       \/ Failed(d)
    /\ UNCHANGED supportVars

\* lines 112-117
DrvSetModeWrite(d) ==
    /\ drivers[d].pc = "sm_write"
    /\ LET call == Call(0, SetModeApplets[drivers[d].idx].ins, SLOT_DEVICE_CONFIG, 0,
                        PackMode(drivers[d].mode, 0, 0))
       IN
       \/ \E ans \in Answers(call) :
             LET sw == StatusWord(ans.sw1, ans.sw2) IN
             /\ Delivered(d, call, ans)
             /\ drivers' = [drivers EXCEPT ![d] =
                   [@ EXCEPT !.pc = "done", !.apdus = @ + 1,
                             !.outcome = IF sw = SW_OK THEN "set_mode"
                                         ELSE "Setting mode failed!"]]
             /\ used' = IF sw = SW_OK THEN used \cup {Used("mode", sw)} ELSE used
       \/ Failed(d)
    /\ UNCHANGED supportVars

NextDriver ==
    \E d \in Drivers :
        \/ DrvInit(d)
        \/ DrvReadSerial(d)
        \/ DrvReadCapabilities(d)
        \/ DrvCapabilityQuery(d)
        \/ DrvSetModeSelect(d)
        \/ DrvSetModeWrite(d)

SpecDriver == InitDriver /\ [][NextDriver]_vars

\* ------------------------------------------------------ claims: resolvers
Returned == pc \in {"resolved", "done"}

\* The calls whose channel/protocol errors nothing catches.
Propagating ==
    {"ccid_mgmt_select", "ccid_read", "ccid_deselect", "ccid_otp_select",
     "otp_mgmt_select", "otp_session", "otp_read", "otp_serial"}

\* The calls made under "except Exception".
CaughtBroadly == {"ccid_otp_serial", "ccid_probe", "ctap_mgmt_select", "ctap_read"}

\* C4 (as claimed): when a command of a resolution failed with a channel error or
\* a protocol error, read_info raises that error: it never returns a DeviceInfo.
C4_EveryFatalErrorPropagates == Returned => faults = {}

\* C4 (amended): a channel or protocol error in Management selection or
\* read_device_info of the CCID and OTP resolvers, in the de-select, in opening
\* the OTP session or in the OTP resolver's serial read makes read_info raise that
\* error; one in the CCID resolver's OTP serial read, in an applet probe or in the
\* CTAP resolver's Management selection or read is caught, and read_info returns
\* a DeviceInfo.  Only CommandRejected in the reclaim loop is retried.
C4_FatalErrorsPropagateOutsideBroadCatches ==
    /\ Returned => faults \subseteq CaughtBroadly
    /\ faults \cap Propagating # {} => pc = "raised" /\ raised \in Fatal
    /\ pc = "raised" /\ raised \in Fatal => faults \cap Propagating # {}
    /\ n = sleeps
    /\ sleeps <= mgmtRejects + serialRejects

C4_Witness ==
    /\ pc = "done"
    /\ faults = {"ccid_otp_serial", "ccid_probe"}

\* C5: in the OTP resolver with OTP and at least one more interface active and no
\* rejected Management read, when the first k serial reads are rejected with
\* CommandRejected and read k+1 succeeds (k <= 7), the resolver returns the serial
\* of read k+1 after exactly k sleeps, and no serial read follows the successful one.
C5_SerialAfterRejections ==
    /\ okRead # 0 => serialReads = okRead
    /\ ( /\ Returned
         /\ conn = "OtpConnection"
         /\ "OTP" \in interfaces
         /\ interfaces # {"OTP"}
         /\ mgmtRejects = 0
         /\ okRead # 0 )
       => /\ source = "synth"
          /\ okRead = serialRejects + 1
          /\ serialRejects <= 7
          /\ sleeps = serialRejects
          /\ info.serial = okSerial

\* Seven rejections, the eighth read succeeds, Management present but NotSupported.
C5_Witness ==
    /\ pc = "done"
    /\ conn = "OtpConnection"
    /\ mgmt
    /\ interfaces = {"OTP", "FIDO"}
    /\ mgmtRejects = 0
    /\ serialRejects = 7
    /\ okRead = 8
    /\ sleeps = 7
    /\ info.serial = "serial2"

C6_Bounded ==
    /\ n <= 8
    /\ sleeps <= 8
    /\ conn # "OtpConnection" => sleeps = 0
    /\ (Returned /\ conn = "OtpConnection" /\ n = 8)
       => /\ source = "synth"
          /\ info.serial = None
          /\ info.version = otp.version

ScanDone == pc \in {"ccid_scan", "drv_probe"} /\ applets # NoneRec /\ table = <<>>

\* The capabilities of the identifiers the device selects, whatever the order.
SelectedCodes(tbl, ok) == {tbl[i].code : i \in {j \in 1..Len(tbl) : applets[tbl[j].aid] = ok}}

\* C9: for a fixed assignment of which identifiers select and which are rejected,
\* every order of the probe table ends with the same capability bitset (the
\* starting bits and the capability of every identifier that selects), and every
\* identifier has been probed, whichever selections were rejected; the scan of
\* _read_info_ccid is never left before the end of the table, and the scan of
\* the driver only when the channel itself fails in transmit.
C9_ProbeOrderIndependent ==
    /\ ScanDone =>
          IF pc = "ccid_scan"
          THEN /\ capabilities \ {"OTP"} = SelectedCodes(SCAN_APPLETS, "ok")
               /\ probed = Aids(SCAN_APPLETS)
          ELSE /\ capabilities = {"CCID"} \cup SelectedCodes(KNOWN_APPLETS, SW_OK)
               /\ probed = Aids(KNOWN_APPLETS)
    /\ pc \in {"ccid_scan", "drv_probe", "drv_raised"}
    /\ pc = "drv_raised" <=> raised = "ChannelError"

\* One probe failed with a channel error, one was rejected, the others selected.
C9_Witness ==
    /\ ScanDone
    /\ pc = "ccid_scan"
    /\ "ccid_probe" \in faults
    /\ applets["OATH"] = "ChannelError"
    /\ applets["FIDO"] = "ApplicationNotAvailableError"
    /\ capabilities = {"OTP", "PIV", "U2F"}

\* ----------------------------------------------------------- claims: naming
Named == pc = "named"

\* "classified as YK4": the hint is YK4, or it is absent and the device has a
\* serial or more than FIDO capabilities (and the major version is not 3)
ClassifiedYk4 ==
    \/ key_type = "YK4"
    \/ /\ key_type = None
       /\ info.version[1] # 3
       /\ \/ info.serial # None
          \/ info.supported_capabilities["USB"] \ {"U2F", "FIDO2"} # {}

PlainUsbA ==
    /\ info.form_factor = "USB_A_KEYCHAIN"
    /\ "NFC" \notin DOMAIN info.supported_capabilities
    /\ ~info.is_fips

\* a version from 5.1.0 on that lies in none of the three preview windows
Released(v) ==
    \/ v[1] > 5
    \/ /\ v[1] = 5
       /\ \/ v[2] = 1
          \/ v[2] = 2 /\ v[3] >= 3
          \/ v[2] \in {3, 4}
          \/ v[2] = 5 /\ v[3] >= 2
          \/ v[2] > 5

\* C7 as stated: version (5,2,0), USB-A keychain, no NFC, not FIPS, classified
\* as YK4: get_name returns exactly "YubiKey 5A".
C7_Name520IsYubiKey5A ==
    (Named /\ ClassifiedYk4 /\ PlainUsbA /\ info.version = <<5, 2, 0>>)
        => name = <<"Y", "u", "b", "i", "K", "e", "y", " ", "5", "A">>

\* C7 amended: for a USB-A keychain without NFC, not FIPS, classified as YK4,
\* get_name returns "YubiKey Preview" at version (5,2,0), which opens the second
\* preview window, and returns exactly "YubiKey 5A" at every version from 5.1.0
\* on outside the preview windows, such as (5,2,3), when is_sky is false.
C7_Name520IsPreviewAndReleasedIs5A ==
    (Named /\ ClassifiedYk4 /\ PlainUsbA) =>
        /\ info.version = <<5, 2, 0>> => name = Str_YubiKeyPreview
        /\ (Released(info.version) /\ ~info.is_sky) => name = <<"Y", "u", "b", "i", "K", "e", "y", " ", "5", "A">>

\* (5,2,3), the first version after the second preview window, no hint, a serial
C7_Witness ==
    /\ Named /\ ClassifiedYk4 /\ PlainUsbA
    /\ key_type = None
    /\ info.serial = "serial1"
    /\ ~info.is_sky
    /\ info.version = <<5, 2, 3>>
    /\ name = <<"Y", "u", "b", "i", "K", "e", "y", " ", "5", "A">>

\* C8: version (5,1,0), USB-C keychain, NFC in the supported map, not FIPS,
\* is_sky false, classified as YK4: get_name returns exactly "YubiKey 5C NFC".
C8_Name510UsbCNfc ==
    ( /\ Named /\ ClassifiedYk4
      /\ info.version = <<5, 1, 0>>
      /\ info.form_factor = "USB_C_KEYCHAIN"
      /\ "NFC" \in DOMAIN info.supported_capabilities
      /\ ~info.is_fips
      /\ ~info.is_sky )
        => name = <<"Y", "u", "b", "i", "K", "e", "y", " ", "5", "C", " ", "N", "F", "C">>

\* no hint and no serial: classified by the capabilities beyond FIDO
C8_Witness ==
    /\ Named
    /\ key_type = None
    /\ info.serial = None
    /\ "OATH" \in info.supported_capabilities["USB"]
    /\ info.version = <<5, 1, 0>>
    /\ info.form_factor = "USB_C_KEYCHAIN"
    /\ "NFC" \in DOMAIN info.supported_capabilities
    /\ ~info.is_fips
    /\ ~info.is_sky
    /\ name = <<"Y", "u", "b", "i", "K", "e", "y", " ", "5", "C", " ", "N", "F", "C">>

\* ---------------------------------------------------- claims: normalization
\* 4.4.0 <= v < 4.5.0, stated on the components of the triple
InFipsRange(v) == v[1] = 4 /\ v[2] = 4

NfcIncapable(i) ==
    /\ i.version[1] >= 4
    /\ \/ i.form_factor \in {"USB_A_NANO", "USB_C_NANO", "USB_C_LIGHTNING"}
       \/ /\ i.form_factor = "USB_C_KEYCHAIN"
          /\ \/ i.version[1] < 5
             \/ i.version[1] = 5 /\ i.version[2] < 2
             \/ i.version[1] = 5 /\ i.version[2] = 2 /\ i.version[3] < 4

UsbDerived ==
    /\ pc \in {"done", "again"}
    /\ "USB" \in DOMAIN raw.supported_capabilities
    /\ "USB" \notin DOMAIN raw.enabled_capabilities

\* C1 (as claimed): whenever the resolver's DeviceInfo has USB in its supported
\* map and no USB entry in its enabled map, then after normalization, for every
\* set of active interfaces, enabled[USB] is a subset of supported[USB].
C1_EnabledUsbWithinSupported ==
    UsbDerived =>
        info.enabled_capabilities["USB"] \subseteq info.supported_capabilities["USB"]

\* C2 (as claimed): the returned FIPS flag is true exactly when the version lies
\* in [4.4.0, 4.5.0), whatever the resolver reported.
C2_FipsIffVersionInRange ==
    pc = "done" => (info.is_fips <=> InFipsRange(info.version))

\* C2 (amended): the returned FIPS flag is true when the version lies in
\* [4.4.0, 4.5.0); for every other version it is the flag the resolver reported.
C2_FipsFromRangeOrResolver ==
    pc = "done" => (info.is_fips <=> (InFipsRange(info.version) \/ raw.is_fips))

C2_Witness ==
    /\ pc = "done"
    /\ InFipsRange(info.version)
    /\ ~raw.is_fips
    /\ info.is_fips

\* C3: a returned DeviceInfo with version >= 4.0.0 and form factor USB-A Nano,
\* USB-C Nano, USB-C Lightning, or USB-C Keychain below 5.2.4, has no NFC entry
\* in its supported map and none in its enabled map.
C3_NoNfcOnIncapableFormFactor ==
    (pc = "done" /\ NfcIncapable(info)) =>
        /\ "NFC" \notin DOMAIN info.supported_capabilities
        /\ "NFC" \notin DOMAIN info.enabled_capabilities

C3_Witness ==
    /\ pc = "done"
    /\ NfcIncapable(info)
    /\ info.form_factor = "USB_C_LIGHTNING"
    /\ "NFC" \in DOMAIN raw.supported_capabilities
    /\ "NFC" \in DOMAIN raw.enabled_capabilities
    /\ "NFC" \notin DOMAIN info.enabled_capabilities

\* C10: applying the normalization steps to an already normalized DeviceInfo
\* leaves its supported map, its enabled map and its FIPS flag as they were.
C10_NormalizeIdempotent ==
    [][(pc \in {"done", "again"} /\ pc' = "again") =>
          /\ info'.supported_capabilities = info.supported_capabilities
          /\ info'.enabled_capabilities = info.enabled_capabilities
          /\ info'.is_fips = info.is_fips]_vars

\* The second pass has run on the Edge combination.
C10_Witness ==
    /\ pc = "again"
    /\ raw.supported_capabilities["USB"] = EDGE_CAPS
    /\ "USB" \notin DOMAIN raw.enabled_capabilities
    /\ info.supported_capabilities["USB"] = {"OTP", "U2F"}

\* ---------------------------------------------------- claims: CTAP resolver
OverCtap == conn = "FidoConnection"

\* C12: over a FidoConnection read_info never raises; whenever the Management
\* session fails (it does not select, or read_device_info fails, with any
\* exception) the resolver's record is the synthesized one: serial unknown,
\* USB-A keychain, version 4.0.0 for hint YKP and 3.0.0 otherwise,
\* supported[USB] = U2F, except for hint NEO where supported[USB] is
\* U2F|OTP|OATH|PIV|OPENPGP and supported[NFC] is the same; no NFC entry for
\* any other hint.
C12_CtapSynthesizesOnAnyFailure ==
    OverCtap =>
        /\ pc # "raised"
        /\ (Returned /\ (~mgmt \/ faults # {})) => source = "synth"
        /\ (Returned /\ source = "synth") =>
              /\ raw.serial = None
              /\ raw.form_factor = "USB_A_KEYCHAIN"
              /\ raw.version = IF key_type = "YKP" THEN <<4, 0, 0>> ELSE <<3, 0, 0>>
              /\ raw.enabled_capabilities = EmptyDict
              /\ IF key_type = "NEO"
                 THEN /\ DOMAIN raw.supported_capabilities = {"USB", "NFC"}
                      /\ raw.supported_capabilities["USB"] =
                            {"U2F", "OTP", "OATH", "PIV", "OPENPGP"}
                      /\ raw.supported_capabilities["NFC"] =
                            raw.supported_capabilities["USB"]
                 ELSE /\ DOMAIN raw.supported_capabilities = {"USB"}
                      /\ raw.supported_capabilities["USB"] = {"U2F"}

\* hint NEO, the session selected and read_device_info failed on the channel
C12_Witness ==
    /\ OverCtap
    /\ pc = "resolved"
    /\ key_type = "NEO"
    /\ mgmt
    /\ "ctap_read" \in faults
    /\ source = "synth"
    /\ raw.supported_capabilities["NFC"] = {"U2F", "OTP", "OATH", "PIV", "OPENPGP"}

\* ------------------------------------------- claims: the interface masks
\* The interface a capability bit needs, if any.
NeedsInterface(b) ==
    CASE b = "OTP" -> {"OTP"}
      [] b \in {"U2F", "FIDO2"} -> {"FIDO"}
      [] b \in {"OATH", "OPENPGP", "PIV", "CCID"} -> {"CCID"}
      [] OTHER -> {}

\* C14: when normalization derives enabled[USB] (USB supported and enabled[USB]
\* absent in the resolver's record), enabled[USB] holds exactly the supported
\* bits whose interface is active: OTP needs the OTP interface, U2F and FIDO2
\* the FIDO interface, OATH, OpenPGP, PIV and the CCID-interface bit the CCID
\* interface; every other supported bit is carried over.  With no interface
\* active none of the interface-bound bits is enabled.
C14_DerivedUsbMaskedByInterfaces ==
    UsbDerived =>
        /\ info.enabled_capabilities["USB"] =
              {b \in raw.supported_capabilities["USB"] :
                  NeedsInterface(b) \subseteq interfaces}
        /\ interfaces = {} =>
              info.enabled_capabilities["USB"] \cap
                  {"OTP", "U2F", "FIDO2", "OATH", "OPENPGP", "PIV", "CCID"} = {}

\* only the OTP interface is active: of a YubiKey 5's bits, OTP and the bit
\* bound to no interface remain
C14_Witness ==
    /\ UsbDerived
    /\ pc = "done"
    /\ interfaces = {"OTP"}
    /\ {"FIDO2", "PIV", "HSMAUTH"} \subseteq raw.supported_capabilities["USB"]
    /\ info.enabled_capabilities["USB"] = {"OTP", "HSMAUTH"}

\* ---------------------------------------------- claims: preview versions
\* [5.0.0, 5.1.0), [5.2.0, 5.2.3), [5.5.0, 5.5.2), on the components
InPreviewWindow(v) ==
    /\ v[1] = 5
    /\ \/ v[2] = 0
       \/ v[2] = 2 /\ v[3] < 3
       \/ v[2] = 5 /\ v[3] < 2

\* C18: _is_preview(v) is true exactly for the versions of the three half-open
\* windows, so (5,2,0) and (5,2,1) are preview and (5,2,3) and (5,1,0) are not;
\* and for a device classified as YK4 get_name returns "YubiKey Preview" for
\* every preview version, also from 5.1.0 on where the name is otherwise composed.
C18_PreviewWindowsAndName ==
    /\ is_preview(<<5, 2, 0>>) /\ is_preview(<<5, 2, 1>>)
    /\ ~is_preview(<<5, 2, 3>>) /\ ~is_preview(<<5, 1, 0>>)
    /\ Named =>
          /\ is_preview(info.version) <=> InPreviewWindow(info.version)
          /\ (ClassifiedYk4 /\ InPreviewWindow(info.version)) =>
                name = Str_YubiKeyPreview

\* (5,5,1) lies in the third window and after 5.1.0: no composed name
C18_Witness ==
    /\ Named
    /\ ClassifiedYk4
    /\ key_type = "YK4"
    /\ info.version = <<5, 5, 1>>
    /\ info.form_factor = "USB_C_NANO"
    /\ info.is_fips
    /\ name = <<"Y", "u", "b", "i", "K", "e", "y", " ", "P", "r", "e", "v", "i", "e", "w">>

\* ------------------------------------------- claims: the OTP reclaim loop
OverOtp == conn = "OtpConnection"

OnlyOtp == interfaces = {"OTP"}

\* What holds in every state of a resolution over an OtpConnection.
C15_State ==
    OverOtp =>
        /\ (OnlyOtp /\ serialRejects > 0) =>
              /\ serialRejects = 1
              /\ pc \in {"otp_synth", "resolved", "done"}
              /\ serial = None
              /\ Returned => (source = "synth" /\ raw.serial = None)
        /\ ~OnlyOtp =>
              /\ sleeps = serialRejects + mgmtRejects
                              - (IF pc = "otp_sleep" THEN 1 ELSE 0)
              /\ (Returned /\ source = "synth" /\ raw.serial = None) =>
                    n = ReclaimTries

\* What holds of every step of a resolution over an OtpConnection.
C15_Step ==
    OverOtp =>
        /\ serialRejects' = serialRejects + 1 =>
              IF OnlyOtp
              THEN pc' = "otp_synth" /\ sleeps' = sleeps
              ELSE pc' = "otp_sleep"
        /\ (OnlyOtp /\ serialRejects = 1) =>
              /\ sleeps' = sleeps
              /\ serialReads' = serialReads
              /\ serialRejects' = serialRejects
              /\ mgmtRejects' = mgmtRejects
        /\ pc = "otp_sleep" => (sleeps' = sleeps + 1 /\ pc' = "otp_loop")

\* C15: when the active interfaces are exactly {OTP} and a serial read through
\* the OTP application is rejected, the loop ends at once: no sleep follows, no
\* further serial read or Management read is made, and the returned DeviceInfo
\* has no serial.  With any other set of interfaces every rejection is followed
\* by one sleep and the next iteration, and a synthesized record without serial
\* is returned only after all eight iterations.
C15_OtpOnlySerialRejectionBreaks == [](C15_State) /\ [][C15_Step]_vars

\* OTP only: the one serial read was rejected, nothing slept, no serial
C15_Witness ==
    /\ OverOtp /\ OnlyOtp
    /\ pc = "resolved"
    /\ serialReads = 1 /\ serialRejects = 1
    /\ sleeps = 0
    /\ source = "synth"
    /\ raw.serial = None

\* C16: in _read_info_otp, once read_device_info has failed with
\* NotSupportedError it is not called again in that call (none of its outcomes
\* occurs again: no result, no rejection, no second NotSupported, no channel
\* error), every iteration that follows reads the serial through the OTP
\* application, and a record that is returned is the synthesized one.
C16_State ==
    (OverOtp /\ notSupported) =>
        /\ source # "mgmt"
        /\ "otp_read" \notin faults
        /\ Returned => source = "synth"

C16_Step ==
    (OverOtp /\ notSupported) =>
        /\ mgmtRejects' = mgmtRejects
        /\ pc' # "otp_session_ns"
        /\ (pc = "otp_loop" /\ n < ReclaimTries) => serialReads' = serialReads + 1

C16_NotSupportedSwitchesToOtpForGood == [](C16_State) /\ [][C16_Step]_vars

\* two rejected Management reads, then NotSupported, then a rejected and a
\* successful serial read
C16_Witness ==
    /\ OverOtp
    /\ notSupported
    /\ pc = "resolved"
    /\ mgmtRejects = 2
    /\ serialRejects = 1
    /\ serialReads = 2
    /\ source = "synth"
    /\ raw.serial = "serial1"

\* C20 as stated: with interfaces == {OTP} the OTP resolver never sleeps,
\* whichever command was rejected.
C20_OtpOnlyNeverSleeps == (OverOtp /\ OnlyOtp) => sleeps = 0

\* C20 amended: with interfaces == {OTP} the OTP resolver does not sleep after a
\* rejected serial read, which ends the loop, but it sleeps once after every
\* rejected Management read_device_info and goes to the next iteration: the
\* break of line 182 also requires an OTP session, and there is none while the
\* Management session is being read.
C20_OtpOnlySleepsAfterMgmtRejection ==
    (OverOtp /\ OnlyOtp) =>
        /\ sleeps = mgmtRejects - (IF pc = "otp_sleep" THEN 1 ELSE 0)
        /\ pc = "otp_sleep" => otp = NoneRec
        /\ serialRejects > 0 => pc \in {"otp_synth", "resolved", "done"}

\* OTP only: every one of the eight Management reads was rejected and slept on
C20_Witness ==
    /\ OverOtp /\ OnlyOtp
    /\ pc = "resolved"
    /\ mgmtRejects = ReclaimTries
    /\ sleeps = ReclaimTries
    /\ serialReads = 0
    /\ raw.serial = None

\* ------------------------------------------------ claims: the CCID driver
\* C11 as stated: wherever the driver takes a result from a response (version
\* and serial in _read_version, capabilities in read_capabilities, completion of
\* set_mode), the status word of that response is 0x9000.
C11_ResultsOnlyFromSuccess == \A u \in used : u.sw = SW_OK

\* C13: every send_apdu call makes exactly one transmit, of the header
\* [cl, ins, p1, p2, len(data)] followed by the data, and returns
\* sw1 * 256 + sw2; when transmit fails on the channel the call that sent ends
\* with that failure and no second transmit is made.
C13_OneTransmitPerSend ==
    /\ transmits = sends
    /\ wire # NoneRec =>
          /\ wire.apdu = <<wire.call.cl, wire.call.ins, wire.call.p1, wire.call.p2,
                           Len(wire.call.data)>> \o wire.call.data
          /\ Len(wire.apdu) = 5 + Len(wire.call.data)
          /\ wire.sw = wire.sw1 * 256 + wire.sw2
    /\ \A d \in Drivers : drivers[d].outcome = "ChannelError" => drivers[d].pc = "done"

\* a rejected serial read (6985) was delivered, then the next transmit failed
C13_Witness ==
    /\ drivers["d1"].outcome = "ChannelError"
    /\ drivers["d2"].pc = "absent"
    /\ sends = 3 /\ transmits = 3
    /\ wire # NoneRec
    /\ wire.apdu = <<0, 1, 16, 0, 0>>
    /\ wire.sw = 27013

\* The driver owns its connection: no other driver sends on it.
Exclusive == drivers["d2"].pc = "absent"

\* d starts read_capabilities in this step / makes its capability query
StartsReadCapabilities(d) ==
    /\ drivers[d].pc = "idle"
    /\ \/ drivers'[d].pc = "rc_query"
       \/ drivers'[d].outcome = "read_capabilities"

C17_Step ==
    \A d \in Drivers :
        /\ StartsReadCapabilities(d) =>
              IF drivers[d].version = <<4, 2, 4>>
              THEN /\ drivers'[d].outcome = "read_capabilities"
                   /\ drivers'[d].ret = <<3, 1, 1, 63>>
                   /\ sends' = sends /\ transmits' = transmits
                   /\ wire' = wire
                   /\ selected' = selected
              ELSE /\ sends' = sends + 1
                   /\ wire'.by = d
                   /\ wire'.apdu = <<0, 164, 4, 0, 8>> \o MGR_AID
                   /\ IF wire'.sw = SW_OK
                      THEN drivers'[d].pc = "rc_query"
                      ELSE /\ drivers'[d].outcome = "read_capabilities"
                           /\ drivers'[d].ret = <<>>
        /\ (drivers[d].pc = "rc_query" /\ drivers'[d].outcome = "read_capabilities") =>
              /\ sends' = sends + 1
              /\ wire'.by = d
              /\ wire'.apdu = <<0, 29, 0, 0, 0>>

C17_State ==
    \A d \in Drivers :
        /\ drivers[d].pc = "rc_query" => drivers[d].version # <<4, 2, 4>>
        /\ drivers[d].outcome = "read_capabilities" =>
              IF drivers[d].version = <<4, 2, 4>>
              THEN /\ drivers[d].apdus = 0
                   /\ drivers[d].ret = <<3, 1, 1, 63>>
                   /\ Exclusive => selected = drivers[d].sel0
              ELSE drivers[d].apdus \in {1, 2}

\* C17: with version exactly (4,2,4) read_capabilities returns 03 01 01 3f and
\* sends nothing (no SELECT, no capability query), so the selected applet stays
\* as it was; with any other version it first selects the management applet,
\* sends the capability query only when that SELECT returned 0x9000, and
\* returns the empty value otherwise.
C17_Version424SkipsTheQuery == [](C17_State) /\ [][C17_Step]_vars

\* 4.2.4 read from the OTP applet, which is still the selected one
C17_Witness ==
    /\ Exclusive
    /\ drivers["d1"].version = <<4, 2, 4>>
    /\ drivers["d1"].outcome = "read_capabilities"
    /\ drivers["d1"].ret = <<3, 1, 1, 63>>
    /\ drivers["d1"].apdus = 0
    /\ sends = 2
    /\ wire.call.ins = INS_YK2_REQ
    /\ selected = OTP_AID

\* The applet a command other than SELECT is meant for.
Intended(call) ==
    IF call.ins \in {INS_YK4_CAPABILITIES, INS_NEO_TEST} THEN MGR_AID ELSE OTP_AID

\* C19: while one driver owns the connection, every command other than SELECT
\* that it sends (serial read, capability query, mode write) directly follows a
\* SELECT of the applet it is meant for that returned 0x9000, and is delivered
\* to that applet.  (With two drivers on the connection a command can reach
\* another applet: C19_Witness.)
C19_CommandFollowsItsSelect ==
    (Exclusive /\ wire # NoneRec /\ wire.call.ins # INS_SELECT) =>
        /\ wire.prev # NoneRec
        /\ wire.prev.call.ins = INS_SELECT
        /\ wire.prev.call.data = Intended(wire.call)
        /\ wire.prev.sw = SW_OK
        /\ wire.prev.by = wire.by
        /\ wire.routed = Intended(wire.call)

\* two drivers: d1's mode write for the OTP applet is delivered after d2
\* selected the management applet
C19_Witness ==
    /\ ~Exclusive
    /\ wire # NoneRec
    /\ wire.by = "d1"
    /\ wire.call.ins = INS_YK2_REQ
    /\ wire.call.p1 = SLOT_DEVICE_CONFIG
    /\ wire.routed = MGR_AID
    /\ wire.prev.by = "d2"
    /\ wire.prev.call.ins = INS_SELECT

\* ------------------------------------------- claims: the Edge narrowing
EdgeDerived == UsbDerived /\ raw.supported_capabilities["USB"] = EDGE_CAPS

\* C21 as stated: for a resolver's record whose supported[USB] is
\* OTP|U2F|CCID-interface bit (and whose enabled[USB] is absent, so that step 1
\* runs), step 1 leaves supported[NFC] as it was; step 3 then defaults a missing
\* enabled[NFC] to supported[NFC] (where the form factor keeps NFC); and after
\* normalization the CCID-interface bit is in neither supported[USB] nor
\* enabled[USB].
C21_EdgeNarrowingTouchesOnlyUsb ==
    EdgeDerived =>
        LET step1 == SetUsbEnabled(raw, interfaces) IN
        /\ "NFC" \in DOMAIN raw.supported_capabilities =>
              /\ "NFC" \in DOMAIN step1.supported_capabilities
              /\ step1.supported_capabilities["NFC"] = raw.supported_capabilities["NFC"]
        /\ ( /\ "NFC" \in DOMAIN raw.supported_capabilities
             /\ "NFC" \notin DOMAIN raw.enabled_capabilities
             /\ ~NfcIncapable(raw) ) =>
              /\ "NFC" \in DOMAIN info.enabled_capabilities
              /\ info.enabled_capabilities["NFC"] = raw.supported_capabilities["NFC"]
        /\ "CCID" \notin info.supported_capabilities["USB"]
        /\ "CCID" \notin info.enabled_capabilities["USB"]

\* ------------------------------------------------------- claims: set_mode
SelectOf(aid) == <<0, 164, 4, 0, Len(aid)>> \o aid

\* d's call ended on the channel in this step
ChannelFailure(d) == drivers'[d].outcome = "ChannelError"

C22_State ==
    \A d \in Drivers :
        /\ drivers[d].pc = "sm_write" => drivers[d].apdus = drivers[d].idx
        /\ drivers[d].outcome \in {"set_mode", "Setting mode failed!"} =>
              /\ drivers[d].pc = "done"
              /\ drivers[d].apdus = drivers[d].idx + 1
        /\ drivers[d].outcome = "Selecting applet failed!" =>
              /\ drivers[d].pc = "done"
              /\ drivers[d].idx = 2
              /\ drivers[d].apdus = 2

C22_Step ==
    \A d \in Drivers :
        /\ (drivers[d].pc = "idle" /\ drivers'[d].pc \in {"sm_write", "sm_select"}) =>
              /\ wire'.by = d
              /\ wire'.apdu = SelectOf(OTP_AID)
              /\ drivers'[d].pc = "sm_write" <=> wire'.sw = SW_OK
              /\ drivers'[d].idx = IF wire'.sw = SW_OK THEN 1 ELSE 2
        /\ ( /\ drivers[d].pc = "sm_select"
             /\ drivers'[d] # drivers[d]
             /\ ~ChannelFailure(d) ) =>
              /\ wire'.by = d
              /\ wire'.apdu = SelectOf(MGR_AID)
              /\ IF wire'.sw = SW_OK
                 THEN drivers'[d].pc = "sm_write" /\ drivers'[d].idx = 2
                 ELSE drivers'[d].outcome = "Selecting applet failed!"
        /\ ( /\ drivers[d].pc = "sm_write"
             /\ drivers'[d] # drivers[d]
             /\ ~ChannelFailure(d) ) =>
              /\ wire'.by = d
              /\ wire'.call.ins = IF drivers[d].idx = 1 THEN 1 ELSE 22
              /\ wire'.call.p1 = 17
              /\ wire'.call.data[1] = drivers[d].mode
              /\ drivers'[d].outcome = IF wire'.sw = SW_OK THEN "set_mode"
                                       ELSE "Setting mode failed!"
        /\ drivers[d].pc = "done" => drivers'[d] = drivers[d]

\* C22: set_mode writes the mode to at most one applet per call.  It selects
\* the OTP applet first and the management applet only when that SELECT did not
\* return 0x9000; it sends the configuration command to the applet that
\* selected; when that command is rejected it raises 'Setting mode failed!' and
\* sends nothing more; when neither applet selects it raises 'Selecting applet
\* failed!' after the two SELECTs; it returns normally only when the
\* configuration command was answered 0x9000.
C22_SetModeWritesOneApplet == [](C22_State) /\ [][C22_Step]_vars

\* the OTP applet did not select, the management applet did and rejected the
\* configuration command
C22_Witness ==
    /\ Exclusive
    /\ drivers["d1"].outcome = "Setting mode failed!"
    /\ drivers["d1"].idx = 2
    /\ drivers["d1"].apdus = 3
    /\ wire.call.ins = INS_NEO_TEST
    /\ wire.sw = 27013
    /\ wire.prev.call.data = MGR_AID
    /\ selected = MGR_AID

====
